---- MODULE Spec2Model ----
(***************************************************************************)
(* A model of wptrunner/environment.py: the context managers that own the  *)
(* test environment (cache manager, stash, SSL environment, the wptserve   *)
(* server processes and the SIGINT disposition), the configuration loader, *)
(* the routes builder glue and the SSL keyword-argument selection.         *)
(*                                                                         *)
(* Four specifications are given.                                          *)
(*   Spec        the constructors of both environment classes, and the     *)
(*               whole life of a RemoteServerEnvironment (the              *)
(*               BaseEnvironment methods).                                 *)
(*   SpecSsl     the module-level function get_ssl_kwargs.                 *)
(*   SpecRoutes  LocalServerEnvironment.get_routes.                        *)
(*   SpecLocal   the life of a LocalServerEnvironment (__enter__ with      *)
(*               load_config and serve.start, ensure_started, __exit__).   *)
(* SpecRoutes and SpecLocal start from an instance whose attributes are    *)
(* those BaseEnvironment.__init__ and line 121 assign.                     *)
(* LocalServerEnvironment.__init__ itself (line 120) cannot complete as    *)
(* written, which Spec models; the other two study what the methods do on  *)
(* the instance that constructor is written to produce.                    *)
(*                                                                         *)
(* The collaborators that are not part of this file (serve.RoutesBuilder,  *)
(* serve.merge_json, serve.start, the SSL environment, the cache manager   *)
(* and the stash) are modelled by what the calls in this file rely on.     *)
(***************************************************************************)
EXTENDS Integers, Sequences, FiniteSets, TLC

VARIABLES
    kwargs,            \* the keyword arguments handed to get_ssl_kwargs
    ssl_ret,           \* what the last get_ssl_kwargs call returned or raised
    cls,               \* the class being constructed / of the instance
    phase,             \* New, InitFailed, Unentered, Entered, EnterFailed, Exited
    test_paths,        \* self.test_paths: a dict, kept in its iteration order
    pause_after_test,  \* self.pause_after_test
    debug_info,        \* self.debug_info
    options,           \* self.options
    ssl_enabled,       \* self.ssl_env.ssl_enabled
    files,             \* config.default.json and config.json, as they affect the ports
    config,            \* self.config
    external_config,   \* self.external_config
    routes,            \* self.routes
    test_server_port,  \* self.test_server_port
    servers,           \* self.servers: scheme -> [(port, process)], in iteration order
    procs,             \* the server processes: alive, listening on their port, killed
    cache_manager,     \* the multiprocessing manager: idle, held, released
    stash,             \* the stash server: idle, held, released
    ssl_state,         \* the SSL environment: idle, entered, exited
    sigint,            \* the process-wide SIGINT disposition: default, ignored
    log,               \* the acquisitions and releases made, in order
    ret                \* the outcome of the last method call

vars == <<kwargs, ssl_ret, cls, phase, test_paths, pause_after_test, debug_info,
          options, ssl_enabled, files, config, external_config, routes,
          test_server_port, servers, procs, cache_manager, stash, ssl_state,
          sigint, log, ret>>

\* ------------------------------------------------------------- bounds

\* The number of url bases other than "/" a test_paths mapping may hold.
MaxSubPaths == 2

\* ---------------------------------------------------------- constants

None == "None"
NoConfig == [none |-> TRUE]
ROOT == "/"
SubPathNames == <<"/sub/", "/other/", "/third/", "/fourth/">>
UrlBases == {ROOT} \cup {SubPathNames[i] : i \in 1..MaxSubPaths}
host == "web-platform.test"
here == "wptrunner"

\* os.path.join, then os.path.normpath
JoinPath(dir, name) == dir \o "/" \o name

\* The tests_path a test_paths entry for url_base carries.
TestsPathOf(url_base) == "/checkout" \o url_base \o "tests"

Range(s) == {s[i] : i \in 1..Len(s)}

RECURSIVE Reverse(_)
Reverse(s) == IF s = <<>> THEN <<>> ELSE Append(Reverse(Tail(s)), Head(s))

\* All dicts over the url bases, each in every iteration order it may have.
TestPathDicts ==
    LET KeySeqs == UNION {[1..n -> UrlBases] : n \in 0..Cardinality(UrlBases)}
        Distinct(s) == \A i, j \in 1..Len(s) : i # j => s[i] # s[j]
    IN  {[i \in 1..Len(s) |-> [url_base |-> s[i], tests_path |-> TestsPathOf(s[i])]] :
            s \in {t \in KeySeqs : Distinct(t)}}

HasKey(d, k) == \E i \in 1..Len(d) : d[i].url_base = k
Lookup(d, k) == d[CHOOSE i \in 1..Len(d) : d[i].url_base = k]

\* ---------------------------------------------------- get_ssl_kwargs

SslTypes == {"openssl", "pregenerated", "none"}
PathOptions == {"openssl_binary", "host_key_path", "host_cert_path", "ca_cert_path"}
OtherOptions == {"certificate_domain"}
KwargKeys == {"ssl_type"} \cup PathOptions \cup OtherOptions
KwargValues == {"/etc/a", "/etc/b"}

KwargMaps ==
    UNION {{f \in [D -> SslTypes \cup KwargValues] :
                \A k \in D : (k = "ssl_type") <=> (f[k] \in SslTypes)} :
           D \in SUBSET KwargKeys}

EmptyDict == [k \in {} |-> None]

\* A dict literal {k: kw[k] for k in keys}: a KeyError when a key is missing.
DictOf(kw, keys) ==
    IF keys \subseteq DOMAIN kw
    THEN [exc |-> "none", args |-> [k \in keys |-> kw[k]]]
    ELSE [exc |-> "KeyError", args |-> EmptyDict]

\* get_ssl_kwargs with the pregenerated branch forgetting ca_cert_path.
get_ssl_kwargs_drops_ca(kw) ==
    IF "ssl_type" \notin DOMAIN kw
    THEN [exc |-> "KeyError", args |-> EmptyDict]
    ELSE IF kw["ssl_type"] = "openssl"
    THEN DictOf(kw, {"openssl_binary"})
    ELSE IF kw["ssl_type"] = "pregenerated"
    THEN DictOf(kw, {"host_key_path", "host_cert_path"})
    ELSE [exc |-> "none", args |-> EmptyDict]

get_ssl_kwargs(kw) ==
    IF "ssl_type" \notin DOMAIN kw
    THEN [exc |-> "KeyError", args |-> EmptyDict]
    ELSE IF kw["ssl_type"] = "openssl"
    THEN DictOf(kw, {"openssl_binary"})
    ELSE IF kw["ssl_type"] = "pregenerated"
    THEN DictOf(kw, {"host_key_path", "host_cert_path", "ca_cert_path"})
    ELSE [exc |-> "none", args |-> EmptyDict]

\* ---------------------------------------------------------- get_routes

\* serve.RoutesBuilder(): no static route, and the root mount point it
\* synthesises for itself (the one line 215 deletes).
RoutesBuilder ==
    [static |-> <<>>,
     mountpoint_routes |-> <<[kind |-> "mount", url_base |-> ROOT, path |-> None]>>]

add_static(rb, path, format_args, content_type, route) ==
    [rb EXCEPT !.static = Append(@, [kind |-> "static", path |-> path,
                                     format_args |-> format_args,
                                     content_type |-> content_type,
                                     route |-> route])]

\* mountpoint_routes[url_base] = ...: a dict assignment keeps the key's place.
add_mount_point(rb, url_base, path) ==
    LET m == rb.mountpoint_routes
        entry == [kind |-> "mount", url_base |-> url_base, path |-> path]
    IN  [rb EXCEPT !.mountpoint_routes =
            IF \E i \in 1..Len(m) : m[i].url_base = url_base
            THEN [i \in 1..Len(m) |-> IF m[i].url_base = url_base THEN entry ELSE m[i]]
            ELSE Append(m, entry)]

\* del mountpoint_routes[url_base]
del_mount_point(rb, url_base) ==
    [rb EXCEPT !.mountpoint_routes = SelectSeq(@, LAMBDA e : e.url_base # url_base)]

\* RoutesBuilder.get_routes(): the static routes, then the mount points, last first.
builder_get_routes(rb) == rb.static \o Reverse(rb.mountpoint_routes)

\* options.get(key, default)
OptionGet(opts, key, default) == IF opts[key] = "absent" THEN default ELSE opts[key]

\* The loop without its `continue` for the root entry.
RECURSIVE add_test_paths_no_skip(_, _)
add_test_paths_no_skip(rb, tp) ==
    IF tp = <<>> THEN rb
    ELSE add_test_paths_no_skip(
             add_mount_point(rb, Head(tp).url_base, Head(tp).tests_path), Tail(tp))

\* The loop of lines 209-212 over test_paths.iteritems().
RECURSIVE add_test_paths(_, _)
add_test_paths(rb, tp) ==
    IF tp = <<>> THEN rb
    ELSE IF Head(tp).url_base = ROOT
    THEN add_test_paths(rb, Tail(tp))
    ELSE add_test_paths(add_mount_point(rb, Head(tp).url_base, Head(tp).tests_path),
                        Tail(tp))

get_routes(tp, opts, pause) ==
    LET rb0 == RoutesBuilder
        rb1 == add_static(rb0, JoinPath(here, "testharness_runner.html"), {},
                          "text/html", "/testharness_runner.html")
        rb2 == add_static(rb1,
                          JoinPath(here, OptionGet(opts, "testharnessreport",
                                                   "testharnessreport.js")),
                          {<<"output", pause>>}, "text/javascript",
                          "/resources/testharnessreport.js")
        rb3 == add_test_paths(rb2, tp)
        rb4 == IF ~HasKey(tp, ROOT) THEN del_mount_point(rb3, ROOT) ELSE rb3
    IN  builder_get_routes(rb4)

\* ---------------------------------------------------------- load_config

HttpPorts == <<"8000">>
HttpsPortLists == {<<"8443">>, <<"8443", "8444">>}
LocalHttpsPorts == {[present |-> FALSE, ports |-> <<>>],
                    [present |-> TRUE, ports |-> <<"9443">>]}
ConfigFiles == [default_https : HttpsPortLists, local_https : LocalHttpsPorts]

\* serve.merge_json on the port lists: the local list replaces the default one.
merge_json(fl) ==
    [host |-> host,
     ports |-> [http |-> HttpPorts,
                https |-> IF fl.local_https.present THEN fl.local_https.ports
                          ELSE fl.default_https]]

serve_path(tp) == Lookup(tp, ROOT).tests_path

\* load_config without the ssl_enabled test of line 169.
load_config_keeps_https(tp, ssl_on, fl) ==
    LET merged == merge_json(fl)
    IN  [host |-> merged.host,
         doc_root |-> serve_path(tp),
         ports |-> [http |-> merged.ports.http, https |-> merged.ports.https],
         key_file |-> "key_file",
         certificate |-> "certificate"]

\* load_config once serve_path has found the root entry and both files were read.
load_config(tp, ssl_on, fl) ==
    LET merged == merge_json(fl)
    IN  [host |-> merged.host,
         doc_root |-> serve_path(tp),
         ports |-> [http |-> merged.ports.http,
                    https |-> IF ~ssl_on THEN <<None>> ELSE merged.ports.https],
         key_file |-> "key_file",
         certificate |-> "certificate"]

\* ---------------------------------------------------------- serve.start

Schemes == {"http", "https"}
SchemeOrders == {<<"http", "https">>, <<"https", "http">>}

OpenPorts(ports) == SelectSeq(ports, LAMBDA p : p # None)

\* The processes serve.start spawns: one per port that is not None.
ProcessCount(cfg) == Len(OpenPorts(cfg.ports.http)) + Len(OpenPorts(cfg.ports.https))

\* self.servers as serve.start returns it: scheme -> [(port, process)], the
\* schemes in the order the dict iterates them.
StartedServers(cfg, order) ==
    LET http == OpenPorts(cfg.ports.http)
        https == OpenPorts(cfg.ports.https)
        of(scheme) ==
            IF scheme = "http"
            THEN [i \in 1..Len(http) |-> [port |-> http[i], pid |-> i]]
            ELSE [i \in 1..Len(https) |-> [port |-> https[i], pid |-> Len(http) + i]]
    IN  [k \in 1..Len(order) |-> [scheme |-> order[k], servers |-> of(order[k])]]

\* The (scheme, port, process) triples in the order the nested loops visit them.
RECURSIVE Flatten(_)
Flatten(srv) ==
    IF srv = <<>> THEN <<>>
    ELSE [i \in 1..Len(Head(srv).servers) |->
             [scheme |-> Head(srv).scheme,
              port |-> Head(srv).servers[i].port,
              pid |-> Head(srv).servers[i].pid]] \o Flatten(Tail(srv))

external_config_of(cfg) == [host |-> cfg.host, ports |-> cfg.ports]

\* A liveness poll that never reports a dead process.
is_alive_always(p) == TRUE

is_alive(p) == p.alive /\ ~p.killed

\* ------------------------------------------------------ ensure_started

NoRet == [op |-> "none", exc |-> "none", scheme |-> "", port |-> "",
          connects |-> 0, polls |-> 0, value |-> <<>>]

Raised(op, exc) == [NoRet EXCEPT !.op = op, !.exc = exc]

\* The loops of lines 222-235 over the remaining servers; connects and polls
\* count the s.connect and server.is_alive calls made so far.
RECURSIVE check_servers(_, _, _, _, _)
check_servers(flat, tsp, pr, connects, polls) ==
    IF flat = <<>>
    THEN [NoRet EXCEPT !.op = "ensure_started", !.connects = connects, !.polls = polls]
    ELSE LET s == Head(flat)
             c == IF tsp THEN connects + 1 ELSE connects
             failed(p) == [NoRet EXCEPT !.op = "ensure_started",
                                        !.exc = "EnvironmentError",
                                        !.scheme = s.scheme, !.port = s.port,
                                        !.connects = c, !.polls = p]
         IN  IF tsp /\ ~pr[s.pid].listening THEN failed(polls)
             ELSE IF ~is_alive(pr[s.pid]) THEN failed(polls + 1)
             ELSE check_servers(Tail(flat), tsp, pr, c, polls + 1)

ensure_started(srv, tsp, pr) == check_servers(Flatten(srv), tsp, pr, 0, 0)

\* ------------------------------------------------------- the arguments

DebugInfos == {"None", "batch", "interactive"}
NoExternalConfig == [present |-> FALSE, value |-> NoConfig]
GivenExternalConfig ==
    [present |-> TRUE,
     value |-> [host |-> "remote.test",
                ports |-> [http |-> <<"80">>, https |-> <<"443">>]]]

OptionMaps ==
    [supports_debugger : {"absent", "True"},
     test_server_port : {"absent", "False"},
     testharnessreport : {"absent", "custom_report.js"},
     external_config : {NoExternalConfig, GivenExternalConfig}]

Truthy(v) == v \notin {"absent", "False", "None"}

\* options.pop("test_server_port", True)
PopTestServerPort(opts) ==
    IF opts.test_server_port = "absent" THEN TRUE ELSE Truthy(opts.test_server_port)

\* Line 131.
WantsIgnoreInterrupts(opts, dbg) ==
    Truthy(OptionGet(opts, "supports_debugger", "None")) /\ dbg # "None"
        /\ dbg = "interactive"

SslIdle == [called |-> FALSE, exc |-> "none", args |-> EmptyDict]

\* =====================================================================
\* Actions
\* =====================================================================

\* get_ssl_kwargs(**kwargs), as ssl_env calls it on line 77.
CallGetSslKwargs ==
    /\ ~ssl_ret.called
    /\ ssl_ret' = [called |-> TRUE,
                   exc |-> get_ssl_kwargs(kwargs).exc,
                   args |-> get_ssl_kwargs(kwargs).args]
    /\ UNCHANGED <<kwargs, cls, phase, test_paths, pause_after_test, debug_info,
                   options, ssl_enabled, files, config, external_config, routes,
                   test_server_port, servers, procs, cache_manager, stash,
                   ssl_state, sigint, log, ret>>

\* What BaseEnvironment.__init__ leaves in self.external_config and
\* self.test_server_port (lines 90-98).
BaseInit(opts) == [external_config |-> NoConfig,
                   test_server_port |-> PopTestServerPort(opts)]

\* The constructor without the assertion of line 115.
RemoteInitNoAssert(pause, opts) ==
    LET base == BaseInit(opts)
    IN  IF ~opts.external_config.present
        THEN [exc |-> "KeyError", phase |-> "InitFailed",
              external_config |-> base.external_config,
              test_server_port |-> base.test_server_port]
        ELSE [exc |-> "none", phase |-> "Unentered",
              external_config |-> opts.external_config.value,
              test_server_port |-> base.test_server_port]

\* RemoteServerEnvironment(test_paths, ssl_env, pause_after_test, debug_info, options)
RemoteInitOutcome(pause, opts) ==
    LET base == BaseInit(opts)
    IN  IF pause
        THEN [exc |-> "AssertionError", phase |-> "InitFailed",
              external_config |-> base.external_config,
              test_server_port |-> base.test_server_port]
        ELSE IF ~opts.external_config.present
        THEN [exc |-> "KeyError", phase |-> "InitFailed",
              external_config |-> base.external_config,
              test_server_port |-> base.test_server_port]
        ELSE [exc |-> "none", phase |-> "Unentered",
              external_config |-> opts.external_config.value,
              test_server_port |-> base.test_server_port]

RemoteInit ==
    /\ phase = "New"
    /\ LET out == RemoteInitOutcome(pause_after_test, options)
       IN  /\ cls' = "Remote"
           /\ phase' = out.phase
           /\ external_config' = out.external_config
           /\ test_server_port' = out.test_server_port
           /\ ret' = Raised("__init__", out.exc)
    /\ UNCHANGED <<kwargs, ssl_ret, test_paths, pause_after_test, debug_info,
                   options, ssl_enabled, files, config, routes, servers, procs,
                   cache_manager, stash, ssl_state, sigint, log>>

\* LocalServerEnvironment(*args, **kwargs): line 120 names kwawrgs, which is
\* bound nowhere, so evaluating the call's arguments raises NameError before
\* BaseEnvironment.__init__ runs and before line 121 sets self.routes.
LocalInitOutcome == [exc |-> "NameError", phase |-> "InitFailed"]

LocalInit ==
    /\ phase = "New"
    /\ cls' = "Local"
    /\ phase' = LocalInitOutcome.phase
    /\ ret' = Raised("__init__", LocalInitOutcome.exc)
    /\ UNCHANGED <<kwargs, ssl_ret, test_paths, pause_after_test, debug_info,
                   options, ssl_enabled, files, config, external_config, routes,
                   test_server_port, servers, procs, cache_manager, stash,
                   ssl_state, sigint, log>>

\* BaseEnvironment.__enter__ (lines 100-103): what it acquires, in order.
BaseEnterLog == <<"cache_manager.__enter__", "stash.__enter__">>

\* BaseEnvironment.__exit__ (lines 105-107): what it releases, in order.
BaseExitLog == <<"cache_manager.__exit__", "stash.__exit__">>

\* RemoteServerEnvironment inherits __enter__, __exit__ and ensure_started.
BaseEnter ==
    /\ cls = "Remote" /\ phase = "Unentered"
    /\ phase' = "Entered"
    /\ cache_manager' = "held"
    /\ stash' = "held"
    /\ log' = log \o BaseEnterLog
    /\ ret' = Raised("__enter__", "none")
    /\ UNCHANGED <<kwargs, ssl_ret, cls, test_paths, pause_after_test, debug_info,
                   options, ssl_enabled, files, config, external_config, routes,
                   test_server_port, servers, procs, ssl_state, sigint>>

BaseEnsureStarted ==
    /\ cls = "Remote" /\ phase \in {"Unentered", "Entered", "Exited"}
    /\ ret' = Raised("ensure_started", "none")
    /\ UNCHANGED <<kwargs, ssl_ret, cls, phase, test_paths, pause_after_test,
                   debug_info, options, ssl_enabled, files, config,
                   external_config, routes, test_server_port, servers, procs,
                   cache_manager, stash, ssl_state, sigint, log>>

BaseExit ==
    /\ cls = "Remote" /\ phase = "Entered"
    /\ phase' = "Exited"
    /\ cache_manager' = "released"
    /\ stash' = "released"
    /\ log' = log \o BaseExitLog
    /\ ret' = Raised("__exit__", "none")
    /\ UNCHANGED <<kwargs, ssl_ret, cls, test_paths, pause_after_test, debug_info,
                   options, ssl_enabled, files, config, external_config, routes,
                   test_server_port, servers, procs, ssl_state, sigint>>

\* ------------------------------------------- LocalServerEnvironment

\* Where __enter__ (lines 123-133) may be stopped by an exception of a
\* collaborator: ssl_env.__enter__, the assertion of setup_server_logging,
\* the file reads of load_config, serve.start; or nowhere.
Faults == {"none", "ssl_env", "logging", "load_config", "serve.start"}

\* The place of each step in __enter__, after BaseEnvironment.__enter__.
Stage(f) ==
    CASE f = "ssl_env" -> 1
      [] f = "logging" -> 2
      [] f = "load_config" -> 3
      [] f = "serve.start" -> 4
      [] OTHER -> 5

\* load_config starts with serve_path(self.test_paths) (line 151), a KeyError
\* when test_paths has no "/" entry.
EnterStop(tp, fault) ==
    IF Stage(fault) >= Stage("load_config") /\ ~HasKey(tp, ROOT)
    THEN "load_config" ELSE fault

EnterExc(tp, fault) ==
    LET stop == EnterStop(tp, fault)
    IN  CASE stop = "ssl_env" -> "OSError"
          [] stop = "logging" -> "AssertionError"
          [] stop = "load_config" -> IF ~HasKey(tp, ROOT) THEN "KeyError" ELSE "IOError"
          [] stop = "serve.start" -> "socket.error"
          [] OTHER -> "none"

\* The acquisitions __enter__ makes when it is stopped at stage n.
LocalEnterLog(n, ignore) ==
    BaseEnterLog
        \o (IF n > Stage("ssl_env") THEN <<"ssl_env.__enter__">> ELSE <<>>)
        \o (IF n > Stage("serve.start") THEN <<"serve.start">> ELSE <<>>)
        \o (IF n > Stage("serve.start") /\ ignore THEN <<"ignore_interrupts">> ELSE <<>>)

Enter ==
    /\ cls = "Local" /\ phase = "Unentered"
    /\ \E fault \in Faults, order \in SchemeOrders :
        LET n == Stage(EnterStop(test_paths, fault))
            loaded == n > Stage("load_config")
            started == n > Stage("serve.start")
            cfg == load_config(test_paths, ssl_enabled, files)
            ignore == WantsIgnoreInterrupts(options, debug_info)
        IN  /\ cache_manager' = "held"
            /\ stash' = "held"
            /\ ssl_state' = IF n > Stage("ssl_env") THEN "entered" ELSE ssl_state
            /\ config' = IF loaded THEN cfg ELSE config
            /\ IF started
               THEN \E listening \in SUBSET (1..ProcessCount(cfg)) :
                      /\ servers' = StartedServers(cfg, order)
                      /\ procs' = [pid \in 1..ProcessCount(cfg) |->
                                      [alive |-> TRUE,
                                       listening |-> pid \in listening,
                                       killed |-> FALSE]]
                      /\ external_config' = external_config_of(cfg)
               ELSE UNCHANGED <<servers, procs, external_config>>
            /\ sigint' = IF started /\ ignore THEN "ignored" ELSE sigint
            /\ log' = log \o LocalEnterLog(n, ignore)
            /\ phase' = IF started THEN "Entered" ELSE "EnterFailed"
            /\ ret' = Raised("__enter__", EnterExc(test_paths, fault))
    /\ UNCHANGED <<kwargs, ssl_ret, cls, test_paths, pause_after_test, debug_info,
                   options, ssl_enabled, files, routes, test_server_port>>

\* A server process exits on its own.
ServerDies ==
    /\ cls = "Local" /\ phase = "Entered"
    /\ \E pid \in DOMAIN procs :
        /\ procs[pid].alive
        /\ procs' = [procs EXCEPT ![pid].alive = FALSE]
    /\ UNCHANGED <<kwargs, ssl_ret, cls, phase, test_paths, pause_after_test,
                   debug_info, options, ssl_enabled, files, config,
                   external_config, routes, test_server_port, servers,
                   cache_manager, stash, ssl_state, sigint, log, ret>>

EnsureStarted ==
    /\ cls = "Local" /\ phase = "Entered"
    /\ ret' = ensure_started(servers, test_server_port, procs)
    /\ UNCHANGED <<kwargs, ssl_ret, cls, phase, test_paths, pause_after_test,
                   debug_info, options, ssl_enabled, files, config,
                   external_config, routes, test_server_port, servers, procs,
                   cache_manager, stash, ssl_state, sigint, log>>

\* A Python call binds only when every parameter without a default gets an
\* argument: otherwise TypeError is raised before the callee's body runs.
BindsArguments(params, args) == Len(params) = Len(args)

\* def __exit__(self, exc_type, exc_val, exc_tb) on line 105, and the call
\* BaseEnvironment.__exit__(self) on line 136.
BaseExitParams == <<"self", "exc_type", "exc_val", "exc_tb">>
LocalExitBaseCallArgs == <<"self">>

\* Whether __exit__ gets past its first statement.
LocalExitRuns == BindsArguments(BaseExitParams, LocalExitBaseCallArgs)

\* The releases LocalServerEnvironment.__exit__ (lines 135-142) makes, in order.
LocalExitLog ==
    IF LocalExitRuns
    THEN BaseExitLog \o <<"process_interrupts", "kill_servers", "ssl_env.__exit__">>
    ELSE <<>>

LocalExitExc == IF LocalExitRuns THEN "none" ELSE "TypeError"

Exit ==
    /\ cls = "Local" /\ phase = "Entered"
    /\ phase' = "Exited"
    /\ log' = log \o LocalExitLog
    /\ ret' = Raised("__exit__", LocalExitExc)
    /\ IF LocalExitRuns
       THEN /\ cache_manager' = "released"
            /\ stash' = "released"
            /\ sigint' = "default"
            /\ procs' = [pid \in DOMAIN procs |-> [procs[pid] EXCEPT !.killed = TRUE]]
            /\ ssl_state' = "exited"
       ELSE UNCHANGED <<cache_manager, stash, sigint, procs, ssl_state>>
    /\ UNCHANGED <<kwargs, ssl_ret, cls, test_paths, pause_after_test, debug_info,
                   options, ssl_enabled, files, config, external_config, routes,
                   test_server_port, servers>>

\* self.get_routes(), called as a method on its own.
GetRoutes ==
    /\ cls = "Local" /\ ret.op = "none"
    /\ ret' = [NoRet EXCEPT !.op = "get_routes",
                            !.value = get_routes(test_paths, options, pause_after_test)]
    /\ UNCHANGED <<kwargs, ssl_ret, cls, phase, test_paths, pause_after_test,
                   debug_info, options, ssl_enabled, files, config,
                   external_config, routes, test_server_port, servers, procs,
                   cache_manager, stash, ssl_state, sigint, log>>

\* =====================================================================
\* Specifications
\* =====================================================================

DefaultFiles == [default_https |-> <<"8443">>,
                 local_https |-> [present |-> FALSE, ports |-> <<>>]]
DefaultOptions == [supports_debugger |-> "absent", test_server_port |-> "absent",
                   testharnessreport |-> "absent",
                   external_config |-> NoExternalConfig]

\* Nothing entered, started or called yet.
Untouched ==
    /\ config = NoConfig
    /\ external_config = NoConfig
    /\ servers = <<>>
    /\ procs = <<>>
    /\ cache_manager = "idle"
    /\ stash = "idle"
    /\ ssl_state = "idle"
    /\ sigint = "default"
    /\ log = <<>>
    /\ ret = NoRet

\* The constructors, and the life of a RemoteServerEnvironment.
Init ==
    /\ kwargs = EmptyDict
    /\ ssl_ret = SslIdle
    /\ cls = "none"
    /\ phase = "New"
    /\ test_paths \in TestPathDicts
    /\ pause_after_test \in BOOLEAN
    /\ debug_info \in DebugInfos
    /\ options \in OptionMaps
    /\ ssl_enabled \in BOOLEAN
    /\ files = DefaultFiles
    /\ routes = <<>>
    /\ test_server_port = TRUE
    /\ Untouched

Next == RemoteInit \/ LocalInit \/ BaseEnter \/ BaseEnsureStarted \/ BaseExit

Spec == Init /\ [][Next]_vars

\* get_ssl_kwargs on every keyword mapping.
InitSsl ==
    /\ kwargs \in KwargMaps
    /\ ssl_ret = SslIdle
    /\ cls = "none"
    /\ phase = "New"
    /\ test_paths = <<>>
    /\ pause_after_test = FALSE
    /\ debug_info = "None"
    /\ options = DefaultOptions
    /\ ssl_enabled = FALSE
    /\ files = DefaultFiles
    /\ routes = <<>>
    /\ test_server_port = TRUE
    /\ Untouched

NextSsl == CallGetSslKwargs

SpecSsl == InitSsl /\ [][NextSsl]_vars

\* The attributes of a LocalServerEnvironment as lines 88-98 and 121 set them.
LocalInstance ==
    /\ kwargs = EmptyDict
    /\ ssl_ret = SslIdle
    /\ cls = "Local"
    /\ phase = "Unentered"
    /\ routes = get_routes(test_paths, options, pause_after_test)
    /\ test_server_port = PopTestServerPort(options)
    /\ Untouched

\* get_routes on every test_paths mapping.
InitRoutes ==
    /\ test_paths \in TestPathDicts
    /\ pause_after_test \in BOOLEAN
    /\ debug_info = "None"
    /\ options \in {o \in OptionMaps : /\ o.supports_debugger = "absent"
                                      /\ o.test_server_port = "absent"
                                      /\ ~o.external_config.present}
    /\ ssl_enabled = FALSE
    /\ files = DefaultFiles
    /\ LocalInstance

NextRoutes == GetRoutes

SpecRoutes == InitRoutes /\ [][NextRoutes]_vars

\* The life of a LocalServerEnvironment: entered, probed, exited.
InitLocal ==
    /\ test_paths \in TestPathDicts
    /\ pause_after_test \in BOOLEAN
    /\ debug_info \in DebugInfos
    /\ options \in {o \in OptionMaps : /\ o.testharnessreport = "absent"
                                      /\ ~o.external_config.present}
    /\ ssl_enabled \in BOOLEAN
    /\ files \in ConfigFiles
    /\ LocalInstance

NextLocal == Enter \/ ServerDies \/ EnsureStarted \/ Exit

SpecLocal == InitLocal /\ [][NextLocal]_vars

\* =====================================================================
\* Properties
\* =====================================================================

LocalExited == cls = "Local" /\ phase = "Exited"

\* C1: once an entered LocalServerEnvironment has been exited, every server
\* process serve.start returned has been killed.
C1_ExitKillsEveryServer ==
    LocalExited => \A pid \in DOMAIN procs : procs[pid].killed

\* C2: exit releases in the reverse of the order of entry: SIGINT restored,
\* the servers killed, the SSL environment exited, the stash released, and
\* the cache manager released last.
C2_ExitReversesEntry ==
    LocalExited =>
        log = LocalEnterLog(Stage("none"), WantsIgnoreInterrupts(options, debug_info))
                \o <<"process_interrupts", "kill_servers", "ssl_env.__exit__",
                     "stash.__exit__", "cache_manager.__exit__">>

\* C3: when entry fails after the cache manager and the stash were acquired,
\* nothing acquired so far is still held when the failure reaches the caller.
C3_FailedEntryReleasesEverything ==
    (cls = "Local" /\ phase = "EnterFailed") =>
        /\ cache_manager # "held"
        /\ stash # "held"
        /\ ssl_state # "entered"

\* C4: SIGINT is ignored only while a LocalServerEnvironment is entered that
\* was given a truthy supports_debugger and an interactive debug_info, and it
\* is the default handler after any exit.
C4_SigintIgnoredOnlyWhileEntered ==
    /\ sigint = "ignored" =>
          /\ cls = "Local" /\ phase = "Entered"
          /\ options.supports_debugger = "True"
          /\ debug_info = "interactive"
    /\ LocalExited => sigint = "default"

\* A server fails a check ensure_started makes: the connect, when
\* test_server_port asks for it, or the liveness poll.
FailsCheck(pid) ==
    \/ options.test_server_port # "False" /\ ~procs[pid].listening
    \/ ~procs[pid].alive
    \/ procs[pid].killed

\* C5: ensure_started raises EnvironmentError, naming the scheme and port of
\* a failing server, exactly when some server fails the connect (with
\* test_server_port true) or the liveness poll; without test_server_port it
\* makes no connect; no server is connected to or polled more than once.
C5_EnsureStartedChecks ==
    [][EnsureStarted =>
        LET Pairs == UNION {{<<k, i>> : i \in 1..Len(servers[k].servers)} :
                            k \in 1..Len(servers)}
            Failing == {p \in Pairs : FailsCheck(servers[p[1]].servers[p[2]].pid)}
        IN  /\ ret'.op = "ensure_started"
            /\ ret'.exc \in {"none", "EnvironmentError"}
            /\ (ret'.exc = "EnvironmentError") <=> (Failing # {})
            /\ ret'.exc = "EnvironmentError" =>
                   \E p \in Failing :
                      /\ ret'.scheme = servers[p[1]].scheme
                      /\ ret'.port = servers[p[1]].servers[p[2]].port
            /\ options.test_server_port = "False" => ret'.connects = 0
            /\ ret'.connects <= Cardinality(Pairs)
            /\ ret'.polls <= Cardinality(Pairs)
            /\ ret'.exc = "none" => ret'.polls = Cardinality(Pairs)
    ]_vars

\* ensure_started raised although every server accepted the connect: one
\* of them had died.
C5_Witness ==
    /\ cls = "Local" /\ phase = "Entered"
    /\ ret.op = "ensure_started" /\ ret.exc = "EnvironmentError"
    /\ test_server_port
    /\ \A pid \in DOMAIN procs : procs[pid].listening
    /\ \E pid \in DOMAIN procs : ~procs[pid].alive

\* C6: the configuration load_config returns has ports.https = [None] when
\* the SSL environment is disabled, whatever the files listed, and the
\* merged list when it is enabled.
C6_HttpsPortsFollowSsl ==
    (cls = "Local" /\ config # NoConfig) =>
        /\ ~ssl_enabled => config.ports.https = <<None>>
        /\ ssl_enabled =>
              config.ports.https = IF files.local_https.present
                                   THEN files.local_https.ports
                                   ELSE files.default_https

\* SSL disabled, two HTTPS ports listed, and the loaded list is [None].
C6_Witness ==
    /\ cls = "Local" /\ phase = "Entered"
    /\ ~ssl_enabled
    /\ ~files.local_https.present /\ Len(files.default_https) = 2
    /\ config # NoConfig /\ config.ports.https = <<None>>

\* C7: get_routes returns the two static routes first (the runner page, and
\* the report script with output = pause_after_test), then one mount point
\* per test_paths key other than "/", with that key's tests_path; it adds
\* none for "/", and without a "/" key no root mount point is left.
C7_GetRoutes ==
    ret.op = "get_routes" =>
        LET r == ret.value
            statics == SelectSeq(r, LAMBDA e : e.kind = "static")
            mounts == SelectSeq(r, LAMBDA e : e.kind = "mount")
            SubKeys == {i \in 1..Len(test_paths) : test_paths[i].url_base # ROOT}
            RootMounts == {j \in 1..Len(mounts) : mounts[j].url_base = ROOT}
        IN  /\ Len(statics) = 2
            /\ Len(r) >= 2 /\ SubSeq(r, 1, 2) = statics
            /\ statics[1].route = "/testharness_runner.html"
            /\ statics[1].format_args = {}
            /\ statics[2].route = "/resources/testharnessreport.js"
            /\ statics[2].format_args = {<<"output", pause_after_test>>}
            /\ \A i \in SubKeys :
                  /\ Cardinality({j \in 1..Len(mounts) :
                         mounts[j].url_base = test_paths[i].url_base}) = 1
                  /\ \E j \in 1..Len(mounts) :
                         /\ mounts[j].url_base = test_paths[i].url_base
                         /\ mounts[j].path = test_paths[i].tests_path
            /\ \A j \in RootMounts : mounts[j].path = None
            /\ Len(mounts) = Cardinality(SubKeys) + Cardinality(RootMounts)
            /\ Cardinality(RootMounts) = IF HasKey(test_paths, ROOT) THEN 1 ELSE 0

\* get_routes returned for a test_paths with sub-paths and no "/" key.
C7_Witness ==
    /\ ret.op = "get_routes"
    /\ ~HasKey(test_paths, ROOT)
    /\ Len(test_paths) >= 2
    /\ Len(ret.value) = 2 + Len(test_paths)

\* C8: a RemoteServerEnvironment exists only with pause_after_test false;
\* its external_config is options["external_config"]; entering, probing and
\* exiting it touch the cache manager and the stash and nothing else.
C8_RemoteEnvironment ==
    cls = "Remote" =>
        /\ pause_after_test => phase = "InitFailed"
        /\ phase \in {"Unentered", "Entered", "Exited"} =>
              /\ options.external_config.present
              /\ external_config = options.external_config.value
        /\ servers = <<>> /\ procs = <<>>
        /\ ssl_state = "idle" /\ sigint = "default"
        /\ ret.connects = 0 /\ ret.polls = 0
        /\ Range(log) \subseteq (Range(BaseEnterLog) \cup Range(BaseExitLog))
        /\ phase = "Unentered" => cache_manager = "idle" /\ stash = "idle"
        /\ phase = "Entered" => cache_manager = "held" /\ stash = "held"
        /\ phase = "Exited" => cache_manager = "released" /\ stash = "released"

\* A RemoteServerEnvironment that was entered, probed, and exited.
C8_Witness ==
    /\ cls = "Remote" /\ phase = "Exited"
    /\ ret.op = "ensure_started"
    /\ Len(log) = 4

\* C9: get_ssl_kwargs returns exactly openssl_binary for "openssl", exactly
\* host_key_path, host_cert_path and ca_cert_path for "pregenerated", and
\* nothing for any other ssl_type, each key with the value of the option of
\* that name; it returns whenever the options it reads are present.
C9_GetSslKwargs ==
    ssl_ret.called =>
        LET Wanted == IF "ssl_type" \notin DOMAIN kwargs THEN {}
                      ELSE IF kwargs["ssl_type"] = "openssl" THEN {"openssl_binary"}
                      ELSE IF kwargs["ssl_type"] = "pregenerated"
                      THEN {"host_key_path", "host_cert_path", "ca_cert_path"}
                      ELSE {}
        IN  /\ (ssl_ret.exc = "none") <=>
                  ("ssl_type" \in DOMAIN kwargs /\ Wanted \subseteq DOMAIN kwargs)
            /\ ssl_ret.exc = "none" =>
                  /\ DOMAIN ssl_ret.args = Wanted
                  /\ \A k \in Wanted : ssl_ret.args[k] = kwargs[k]

\* get_ssl_kwargs returned for "pregenerated" with differing paths and with
\* options it must not pass on.
C9_Witness ==
    /\ ssl_ret.called /\ ssl_ret.exc = "none"
    /\ DOMAIN kwargs = KwargKeys
    /\ kwargs["ssl_type"] = "pregenerated"
    /\ kwargs["host_key_path"] # kwargs["ca_cert_path"]
    /\ Cardinality(DOMAIN ssl_ret.args) = 3

\* C10: constructing a LocalServerEnvironment with a test_paths that has a
\* "/" entry completes without error and leaves an unentered environment:
\* routes computed, config and external_config unset, nothing started.
C10_LocalConstruction ==
    (cls = "Local" /\ ret.op = "__init__" /\ HasKey(test_paths, ROOT)) =>
        /\ ret.exc = "none"
        /\ phase = "Unentered"
        /\ routes = get_routes(test_paths, options, pause_after_test)
        /\ config = NoConfig /\ external_config = NoConfig
        /\ servers = <<>> /\ ssl_state = "idle" /\ sigint = "default"

====
